---- MODULE Spec2Model ----
(***************************************************************************)
(* Model of mcp_file_server/server.py: six filesystem tools that resolve a *)
(* caller-supplied path against BASE_PATH and make one filesystem call.    *)
(*                                                                         *)
(* The filesystem is a map from canonical paths (sequences of names from   *)
(* the filesystem root) to entries.  A pathlib path keeps its ".."         *)
(* segments, so a full path is a sequence of segments that the kernel      *)
(* walks (Walk).  File data is a sequence of characters; "CR" and "LF"     *)
(* stand for "\r" and "\n".  Permissions, symlinks and non-encodable text  *)
(* are not modelled.                                                       *)
(***************************************************************************)
EXTENDS Integers, Sequences, FiniteSets, TLC

VARIABLES fs, pre, call, result, touched, scen, procs

vars == <<fs, pre, call, result, touched, scen, procs>>

\* ---------------------------------------------------------------- bounds
\* most entries the filesystem holds, the root and BASE_PATH included
MaxEntries == 6

\* ------------------------------------------------------------ input sets
\* a pathlib.Path after parsing: is_absolute() and its parts below the root
Abs(segs) == [abs |-> TRUE, segs |-> segs]
Rel(segs) == [abs |-> FALSE, segs |-> segs]

Paths ==
  { Abs(<<>>), Abs(<<"sub">>), Abs(<<"sub", "a.txt">>), Abs(<<"a.txt">>),
    Rel(<<"sub">>), Rel(<<"sub", "..", "sub">>), Rel(<<"sub", "..">>),
    Rel(<<"..">>), Rel(<<"..", "a.txt">>), Abs(<<"..", "sub">>) }

Hello == <<"h", "e", "l", "l", "o">>
CrLf == <<"a", "CR", "LF">>
Secret == <<"s">>
Contents == {Hello, CrLf}

\* ------------------------------------------------------------ filesystem
BASE_PATH == <<"data">>

Dir == [kind |-> "dir", data |-> <<>>]
File(c) == [kind |-> "file", data |-> c]

Parent(p) == IF p = <<>> THEN <<>> ELSE SubSeq(p, 1, Len(p) - 1)

IsPrefix(a, b) == Len(a) <= Len(b) /\ SubSeq(b, 1, Len(a)) = a

Children(f, d) == {p \in DOMAIN f : Len(p) = Len(d) + 1 /\ Parent(p) = d}

Remove(f, p) == [q \in (DOMAIN f) \ {p} |-> f[q]]

Put(f, p, e) == [q \in (DOMAIN f) \cup {p} |-> IF q = p THEN e ELSE f[q]]

\* kernel path walk: every component that is walked through must be an
\* existing directory; ".." steps to the parent
RECURSIVE Walk(_, _, _)
Walk(f, cur, rest) ==
  IF rest = <<>> THEN [err |-> "none", path |-> cur]
  ELSE IF cur \notin DOMAIN f THEN [err |-> "ENOENT", path |-> cur]
  ELSE IF f[cur].kind # "dir" THEN [err |-> "ENOTDIR", path |-> cur]
  ELSE Walk(f, IF Head(rest) = ".." THEN Parent(cur) ELSE Append(cur, Head(rest)),
            Tail(rest))

Resolve(f, full) == Walk(f, <<>>, full)

exists(f, full) ==
  LET r == Resolve(f, full) IN r.err = "none" /\ r.path \in DOMAIN f

is_dir(f, full) ==
  LET r == Resolve(f, full) IN
  r.err = "none" /\ r.path \in DOMAIN f /\ f[r.path].kind = "dir"

is_file(f, full) ==
  LET r == Resolve(f, full) IN
  r.err = "none" /\ r.path \in DOMAIN f /\ f[r.path].kind = "file"

EndsDotDot(full) == full # <<>> /\ full[Len(full)] = ".."

os_mkdir(f, full) ==
  LET r == Resolve(f, full) IN
  IF r.err # "none" THEN [fs |-> f, err |-> r.err]
  ELSE IF EndsDotDot(full) \/ r.path \in DOMAIN f THEN [fs |-> f, err |-> "EEXIST"]
  ELSE [fs |-> Put(f, r.path, Dir), err |-> "none"]

\* pathlib.Path.mkdir: the parent is the lexical parent of the path
RECURSIVE mkdir(_, _, _, _)
mkdir(f, full, parents, exist_ok) ==
  LET r == os_mkdir(f, full) IN
  IF r.err = "none" THEN r
  ELSE IF r.err = "ENOENT" THEN
    IF ~parents \/ full = <<>> THEN r
    ELSE LET up == mkdir(f, Parent(full), TRUE, TRUE) IN
         IF up.err # "none" THEN up
         ELSE mkdir(up.fs, full, FALSE, exist_ok)
  ELSE IF ~exist_ok \/ ~is_dir(f, full) THEN r
  ELSE [fs |-> f, err |-> "none"]

rmdir_Recursive(f, full) ==
  LET r == Resolve(f, full) IN
  IF r.err # "none" THEN [fs |-> f, err |-> r.err]
  ELSE IF r.path \notin DOMAIN f THEN [fs |-> f, err |-> "ENOENT"]
  ELSE IF f[r.path].kind # "dir" THEN [fs |-> f, err |-> "ENOTDIR"]
  ELSE [fs |-> [q \in {x \in DOMAIN f : ~IsPrefix(r.path, x)} |-> f[q]], err |-> "none"]

rmdir(f, full) ==
  LET r == Resolve(f, full) IN
  IF r.err # "none" THEN [fs |-> f, err |-> r.err]
  ELSE IF EndsDotDot(full) THEN [fs |-> f, err |-> "ENOTEMPTY"]
  ELSE IF r.path \notin DOMAIN f THEN [fs |-> f, err |-> "ENOENT"]
  ELSE IF f[r.path].kind # "dir" THEN [fs |-> f, err |-> "ENOTDIR"]
  ELSE IF Children(f, r.path) # {} THEN [fs |-> f, err |-> "ENOTEMPTY"]
  ELSE [fs |-> Remove(f, r.path), err |-> "none"]

unlink(f, full) ==
  LET r == Resolve(f, full) IN
  IF r.err # "none" THEN [fs |-> f, err |-> r.err]
  ELSE IF r.path \notin DOMAIN f THEN [fs |-> f, err |-> "ENOENT"]
  ELSE IF f[r.path].kind = "dir" THEN [fs |-> f, err |-> "EISDIR"]
  ELSE [fs |-> Remove(f, r.path), err |-> "none"]

\* text mode, newline=None, on write: "\n" becomes os.linesep
LineSep == <<"LF">>

RECURSIVE WriteTranslate(_)
WriteTranslate(c) ==
  IF c = <<>> THEN <<>>
  ELSE (IF Head(c) = "LF" THEN LineSep ELSE <<Head(c)>>) \o WriteTranslate(Tail(c))

\* text mode, newline=None, on read: "\r\n" and "\r" become "\n"
RECURSIVE ReadTranslate(_)
ReadTranslate(c) ==
  IF c = <<>> THEN <<>>
  ELSE IF Head(c) = "CR" THEN
    IF Len(c) >= 2 /\ c[2] = "LF" THEN <<"LF">> \o ReadTranslate(Tail(Tail(c)))
    ELSE <<"LF">> \o ReadTranslate(Tail(c))
  ELSE <<Head(c)>> \o ReadTranslate(Tail(c))

\* open(full_path, "w") followed by f.write(content)
open_write(f, full, content) ==
  LET r == Resolve(f, full) IN
  IF r.err # "none" THEN [fs |-> f, err |-> r.err]
  ELSE IF r.path \in DOMAIN f /\ f[r.path].kind = "dir" THEN [fs |-> f, err |-> "EISDIR"]
  ELSE [fs |-> Put(f, r.path, File(WriteTranslate(content))), err |-> "none"]

\* open(full_path, "r") followed by f.read()
open_read(f, full) ==
  LET r == Resolve(f, full) IN
  IF r.err # "none" THEN [text |-> <<>>, err |-> r.err]
  ELSE IF r.path \notin DOMAIN f THEN [text |-> <<>>, err |-> "ENOENT"]
  ELSE IF f[r.path].kind = "dir" THEN [text |-> <<>>, err |-> "EISDIR"]
  ELSE [text |-> ReadTranslate(f[r.path].data), err |-> "none"]

\* ------------------------------------------------------- path resolution
get_full_path(p) ==
  IF p.abs THEN BASE_PATH \o p.segs
  ELSE BASE_PATH \o p.segs

get_relative_path(full) == SubSeq(full, Len(BASE_PATH) + 1, Len(full))

\* canonical path the kernel reaches for a full path (defined when the walk succeeds)
Target(f, full) == Resolve(f, full).path

\* --------------------------------------------------------------- results
Dash == -1

NoResult == [kind |-> "none", msg |-> "", text |-> <<>>, entries |-> {}]
Message(m) == [kind |-> "message", msg |-> m, text |-> <<>>, entries |-> {}]
Error(m) == [kind |-> "error", msg |-> m, text |-> <<>>, entries |-> {}]
Content(c) == [kind |-> "content", msg |-> "", text |-> c, entries |-> {}]
Listing(es) == [kind |-> "listing", msg |-> "", text |-> <<>>, entries |-> es]
Raised(m) == [kind |-> "exception", msg |-> m, text |-> <<>>, entries |-> {}]

Out(f, r, t) == [fs |-> f, result |-> r, touched |-> t]

\* ------------------------------------------------------------ list_files
list_files_check(f, path) ==
  LET full_path == get_full_path(path) IN
  IF ~exists(f, full_path) \/ ~is_dir(f, full_path)
  THEN Error("does not exist or is not a directory")
  ELSE NoResult

EntryType_Swapped(f, e) == IF is_file(f, e) THEN "Directory" ELSE "File"

EntryType(f, e) == IF is_dir(f, e) THEN "Directory" ELSE "File"

EntrySize(f, e) == IF is_file(f, e) THEN Len(f[Target(f, e)].data) ELSE Dash

FileInfo(f, e) ==
  [name |-> e[Len(e)], full_path |-> get_relative_path(e),
   type |-> EntryType(f, e), size |-> EntrySize(f, e)]

ListResult_NoEmptyCase(file_info) == Listing(file_info)

ListResult(file_info) ==
  IF Cardinality(file_info) = 0 THEN Message("No files found") ELSE Listing(file_info)

\* full_path.iterdir() and the loop over it; the enumeration order is the
\* filesystem's, so the listing is kept as a set of entries
list_files_body(f, path) ==
  LET full_path == get_full_path(path) IN
  IF ~is_dir(f, full_path)
  THEN Out(f, Raised(IF exists(f, full_path) THEN "NotADirectoryError"
                     ELSE "FileNotFoundError"), {})
  ELSE LET d == Target(f, full_path)
           file_info == {FileInfo(f, Append(full_path, c[Len(c)])) : c \in Children(f, d)}
       IN Out(f, ListResult(file_info), {d})

list_files(f, path) ==
  LET c == list_files_check(f, path) IN
  IF c.kind # "none" THEN Out(f, c, {}) ELSE list_files_body(f, path)

\* ------------------------------------------------------------- read_file
read_file_check(f, path) ==
  LET full_path == get_full_path(path) IN
  IF ~exists(f, full_path) \/ ~is_file(f, full_path)
  THEN Error("does not exist or is not a file")
  ELSE NoResult

read_file_body(f, path) ==
  LET full_path == get_full_path(path)
      r == open_read(f, full_path)
  IN IF r.err # "none" THEN Out(f, Error("Error reading file"), {})
     ELSE Out(f, Content(r.text), {Target(f, full_path)})

read_file(f, path) ==
  LET c == read_file_check(f, path) IN
  IF c.kind # "none" THEN Out(f, c, {}) ELSE read_file_body(f, path)

\* ----------------------------------------------------------- create_file
create_file_check_Skipped(f, path) == NoResult

create_file_check(f, path) ==
  LET full_path == get_full_path(path) IN
  IF exists(f, full_path)
  THEN IF is_dir(f, full_path) THEN Error("is an existing directory")
       ELSE Error("already exists")
  ELSE NoResult

create_file_body(f, path, content) ==
  LET full_path == get_full_path(path)
      r == open_write(f, full_path, content)
  IN IF r.err # "none" THEN Out(f, Error("Error creating file"), {})
     ELSE Out(r.fs, Message("created successfully"), {Target(f, full_path)})

create_file(f, path, content) ==
  LET c == create_file_check(f, path) IN
  IF c.kind # "none" THEN Out(f, c, {}) ELSE create_file_body(f, path, content)

\* ----------------------------------------------------------- delete_file
delete_file_check(f, path) ==
  LET full_path == get_full_path(path) IN
  IF ~exists(f, full_path) \/ ~is_file(f, full_path)
  THEN Error("does not exist or is not a file")
  ELSE NoResult

delete_file_body_NoUnlink(f, path) ==
  Out(f, Message("deleted successfully"), {Target(f, get_full_path(path))})

delete_file_body(f, path) ==
  LET full_path == get_full_path(path)
      r == unlink(f, full_path)
  IN IF r.err # "none" THEN Out(f, Error("Error deleting file"), {})
     ELSE Out(r.fs, Message("deleted successfully"), {Target(f, full_path)})

delete_file(f, path) ==
  LET c == delete_file_check(f, path) IN
  IF c.kind # "none" THEN Out(f, c, {}) ELSE delete_file_body(f, path)

\* ------------------------------------------------------ create_directory
create_directory_check(f, path) ==
  LET full_path == get_full_path(path) IN
  IF exists(f, full_path)
  THEN IF is_file(f, full_path) THEN Error("is an existing file")
       ELSE Error("already exists")
  ELSE NoResult

\* a failing mkdir(parents=True) keeps the ancestors it has already made
create_directory_body(f, path) ==
  LET full_path == get_full_path(path)
      r == mkdir(f, full_path, TRUE, FALSE)
      made == (DOMAIN r.fs) \ (DOMAIN f)
  IN IF r.err # "none" THEN Out(r.fs, Error("Error creating directory"), made)
     ELSE Out(r.fs, Message("created successfully"), made)

create_directory(f, path) ==
  LET c == create_directory_check(f, path) IN
  IF c.kind # "none" THEN Out(f, c, {}) ELSE create_directory_body(f, path)

\* ------------------------------------------------------ delete_directory
delete_directory_check(f, path) ==
  LET full_path == get_full_path(path) IN
  IF ~exists(f, full_path) \/ ~is_dir(f, full_path)
  THEN Error("does not exist or is not a directory")
  ELSE NoResult

delete_directory_body(f, path) ==
  LET full_path == get_full_path(path)
      r == rmdir(f, full_path)
  IN IF r.err # "none" THEN Out(f, Error("Error deleting directory"), {})
     ELSE Out(r.fs, Message("deleted successfully"), {Target(f, full_path)})

delete_directory(f, path) ==
  LET c == delete_directory_check(f, path) IN
  IF c.kind # "none" THEN Out(f, c, {}) ELSE delete_directory_body(f, path)

\* ------------------------------------------- one caller, calls in sequence
NoPath == [abs |-> FALSE, segs |-> <<>>]
NoCall == [op |-> "", path |-> NoPath, content |-> <<>>]
Call(op, path, content) == [op |-> op, path |-> path, content |-> content]

\* the scenario of the specification's section 8, as a sequence of calls
Script ==
  << Call("create_directory", Abs(<<"sub">>), <<>>),
     Call("list_files", Abs(<<>>), <<>>),
     Call("create_file", Abs(<<"sub", "a.txt">>), Hello),
     Call("read_file", Abs(<<"sub", "a.txt">>), <<>>),
     Call("delete_file", Abs(<<"sub", "a.txt">>), <<>>),
     Call("delete_directory", Abs(<<"sub">>), <<>>),
     Call("list_files", Abs(<<>>), <<>>) >>

\* scen = k: the calls made since Init are exactly the first k of Script
NextScen(c) ==
  IF scen >= 0 /\ scen < Len(Script) /\ c = Script[scen + 1] THEN scen + 1 ELSE -1

IdleProc == [pc |-> "idle", op |-> "", path |-> NoPath, content |-> <<>>,
             result |-> NoResult, raced |-> FALSE]
Procs == {1, 2}

FsInit ==
  [p \in {<<>>, BASE_PATH, <<"a.txt">>} |->
     IF p = <<"a.txt">> THEN File(Secret) ELSE Dir]

Init ==
  /\ fs = FsInit
  /\ pre = FsInit
  /\ call = NoCall
  /\ result = NoResult
  /\ touched = {}
  /\ scen = 0
  /\ procs = [p \in Procs |-> IdleProc]

\* each tool call runs from its first line to its return without a step
\* of any other caller in between
ListFiles ==
  \E path \in Paths :
    LET out == list_files(fs, path) IN
    /\ Cardinality(DOMAIN out.fs) <= MaxEntries
    /\ fs' = out.fs
    /\ pre' = fs
    /\ call' = Call("list_files", path, <<>>)
    /\ result' = out.result
    /\ touched' = out.touched
    /\ scen' = NextScen(Call("list_files", path, <<>>))
    /\ UNCHANGED procs

ReadFile ==
  \E path \in Paths :
    LET out == read_file(fs, path) IN
    /\ Cardinality(DOMAIN out.fs) <= MaxEntries
    /\ fs' = out.fs
    /\ pre' = fs
    /\ call' = Call("read_file", path, <<>>)
    /\ result' = out.result
    /\ touched' = out.touched
    /\ scen' = NextScen(Call("read_file", path, <<>>))
    /\ UNCHANGED procs

CreateFile ==
  \E path \in Paths, content \in Contents :
    LET out == create_file(fs, path, content) IN
    /\ Cardinality(DOMAIN out.fs) <= MaxEntries
    /\ fs' = out.fs
    /\ pre' = fs
    /\ call' = Call("create_file", path, content)
    /\ result' = out.result
    /\ touched' = out.touched
    /\ scen' = NextScen(Call("create_file", path, content))
    /\ UNCHANGED procs

DeleteFile ==
  \E path \in Paths :
    LET out == delete_file(fs, path) IN
    /\ Cardinality(DOMAIN out.fs) <= MaxEntries
    /\ fs' = out.fs
    /\ pre' = fs
    /\ call' = Call("delete_file", path, <<>>)
    /\ result' = out.result
    /\ touched' = out.touched
    /\ scen' = NextScen(Call("delete_file", path, <<>>))
    /\ UNCHANGED procs

CreateDirectory ==
  \E path \in Paths :
    LET out == create_directory(fs, path) IN
    /\ Cardinality(DOMAIN out.fs) <= MaxEntries
    /\ fs' = out.fs
    /\ pre' = fs
    /\ call' = Call("create_directory", path, <<>>)
    /\ result' = out.result
    /\ touched' = out.touched
    /\ scen' = NextScen(Call("create_directory", path, <<>>))
    /\ UNCHANGED procs

DeleteDirectory ==
  \E path \in Paths :
    LET out == delete_directory(fs, path) IN
    /\ Cardinality(DOMAIN out.fs) <= MaxEntries
    /\ fs' = out.fs
    /\ pre' = fs
    /\ call' = Call("delete_directory", path, <<>>)
    /\ result' = out.result
    /\ touched' = out.touched
    /\ scen' = NextScen(Call("delete_directory", path, <<>>))
    /\ UNCHANGED procs

Next ==
  \/ ListFiles
  \/ ReadFile
  \/ CreateFile
  \/ DeleteFile
  \/ CreateDirectory
  \/ DeleteDirectory

Spec == Init /\ [][Next]_vars

\* ------------------------------------------- two callers, calls interleaved
\* Two callers (two server processes started on the same base directory, or
\* a transport that runs calls in parallel) each make calls; a call's
\* existence check and its filesystem call are separate steps.
ConcPaths == {Abs(<<"sub">>), Abs(<<"a.txt">>)}

Other(p) == 3 - p

Checked(p, op, path, content, chk) ==
  [pc |-> IF chk.kind = "none" THEN "act" ELSE "done", op |-> op, path |-> path,
   content |-> content, result |-> chk, raced |-> FALSE]

SeqVars == <<pre, call, result, touched, scen>>

ListFilesCheck ==
  \E p \in Procs, path \in ConcPaths :
    /\ procs[p].pc = "idle"
    /\ procs' = [procs EXCEPT ![p] = Checked(p, "list_files", path, <<>>, list_files_check(fs, path))]
    /\ UNCHANGED <<fs, SeqVars>>

ListFilesAct ==
  \E p \in Procs :
    /\ procs[p].pc = "act"
    /\ procs[p].op = "list_files"
    /\ LET out == list_files_body(fs, procs[p].path) IN
       /\ Cardinality(DOMAIN out.fs) <= MaxEntries
       /\ fs' = out.fs
       /\ procs' = [procs EXCEPT ![p].pc = "done", ![p].result = out.result]
    /\ UNCHANGED SeqVars

ReadFileCheck ==
  \E p \in Procs, path \in ConcPaths :
    /\ procs[p].pc = "idle"
    /\ procs' = [procs EXCEPT ![p] = Checked(p, "read_file", path, <<>>, read_file_check(fs, path))]
    /\ UNCHANGED <<fs, SeqVars>>

ReadFileAct ==
  \E p \in Procs :
    /\ procs[p].pc = "act"
    /\ procs[p].op = "read_file"
    /\ LET out == read_file_body(fs, procs[p].path) IN
       /\ Cardinality(DOMAIN out.fs) <= MaxEntries
       /\ fs' = out.fs
       /\ procs' = [procs EXCEPT ![p].pc = "done", ![p].result = out.result]
    /\ UNCHANGED SeqVars

CreateFileCheck ==
  \E p \in Procs, path \in ConcPaths, content \in Contents :
    /\ procs[p].pc = "idle"
    /\ LET me == Checked(p, "create_file", path, content, create_file_check(fs, path))
           q == Other(p)
           race == /\ me.pc = "act" /\ procs[q].pc = "act"
                   /\ procs[q].op = "create_file" /\ procs[q].path = path
       IN procs' = IF race
                   THEN [procs EXCEPT ![p] = [me EXCEPT !.raced = TRUE], ![q].raced = TRUE]
                   ELSE [procs EXCEPT ![p] = me]
    /\ UNCHANGED <<fs, SeqVars>>

CreateFileAct ==
  \E p \in Procs :
    /\ procs[p].pc = "act"
    /\ procs[p].op = "create_file"
    /\ LET out == create_file_body(fs, procs[p].path, procs[p].content) IN
       /\ Cardinality(DOMAIN out.fs) <= MaxEntries
       /\ fs' = out.fs
       /\ procs' = [procs EXCEPT ![p].pc = "done", ![p].result = out.result]
    /\ UNCHANGED SeqVars

DeleteFileCheck ==
  \E p \in Procs, path \in ConcPaths :
    /\ procs[p].pc = "idle"
    /\ procs' = [procs EXCEPT ![p] = Checked(p, "delete_file", path, <<>>, delete_file_check(fs, path))]
    /\ UNCHANGED <<fs, SeqVars>>

DeleteFileAct ==
  \E p \in Procs :
    /\ procs[p].pc = "act"
    /\ procs[p].op = "delete_file"
    /\ LET out == delete_file_body(fs, procs[p].path) IN
       /\ Cardinality(DOMAIN out.fs) <= MaxEntries
       /\ fs' = out.fs
       /\ procs' = [procs EXCEPT ![p].pc = "done", ![p].result = out.result]
    /\ UNCHANGED SeqVars

CreateDirectoryCheck ==
  \E p \in Procs, path \in ConcPaths :
    /\ procs[p].pc = "idle"
    /\ procs' = [procs EXCEPT ![p] = Checked(p, "create_directory", path, <<>>, create_directory_check(fs, path))]
    /\ UNCHANGED <<fs, SeqVars>>

CreateDirectoryAct ==
  \E p \in Procs :
    /\ procs[p].pc = "act"
    /\ procs[p].op = "create_directory"
    /\ LET out == create_directory_body(fs, procs[p].path) IN
       /\ Cardinality(DOMAIN out.fs) <= MaxEntries
       /\ fs' = out.fs
       /\ procs' = [procs EXCEPT ![p].pc = "done", ![p].result = out.result]
    /\ UNCHANGED SeqVars

DeleteDirectoryCheck ==
  \E p \in Procs, path \in ConcPaths :
    /\ procs[p].pc = "idle"
    /\ procs' = [procs EXCEPT ![p] = Checked(p, "delete_directory", path, <<>>, delete_directory_check(fs, path))]
    /\ UNCHANGED <<fs, SeqVars>>

DeleteDirectoryAct ==
  \E p \in Procs :
    /\ procs[p].pc = "act"
    /\ procs[p].op = "delete_directory"
    /\ LET out == delete_directory_body(fs, procs[p].path) IN
       /\ Cardinality(DOMAIN out.fs) <= MaxEntries
       /\ fs' = out.fs
       /\ procs' = [procs EXCEPT ![p].pc = "done", ![p].result = out.result]
    /\ UNCHANGED SeqVars

\* the call has returned (or raised) and the caller is free to call again
Return ==
  \E p \in Procs :
    /\ procs[p].pc = "done"
    /\ procs' = [procs EXCEPT ![p] = IdleProc]
    /\ UNCHANGED <<fs, SeqVars>>

NextConc ==
  \/ ListFilesCheck
  \/ ListFilesAct
  \/ ReadFileCheck
  \/ ReadFileAct
  \/ CreateFileCheck
  \/ CreateFileAct
  \/ DeleteFileCheck
  \/ DeleteFileAct
  \/ CreateDirectoryCheck
  \/ CreateDirectoryAct
  \/ DeleteDirectoryCheck
  \/ DeleteDirectoryAct
  \/ Return

SpecConc == Init /\ [][NextConc]_vars

TypeOK == result.kind \in {"none", "message", "error", "content", "listing", "exception"}

\* ------------------------------------------------------------ properties
full_path == get_full_path(call.path)

InBase(p) == IsPrefix(BASE_PATH, p)

SameEntry(p) == p \in DOMAIN pre /\ p \in DOMAIN fs /\ fs[p] = pre[p]

\* C1: whatever path the caller gives, the call reads, creates and removes
\* entries only inside the BASE_PATH subtree.
C1_Confined ==
  /\ \A t \in touched : InBase(t)
  /\ \A p \in (DOMAIN pre) \cup (DOMAIN fs) : ~InBase(p) => SameEntry(p)

\* C2: create_file on a path that exists (file or directory) returns an
\* error and leaves the filesystem as it was.
C2_CreateExisting ==
  (call.op = "create_file" /\ exists(pre, full_path))
    => (result.kind = "error" /\ fs = pre)

C2_Witness ==
  /\ call.op = "create_file"
  /\ is_file(pre, full_path)
  /\ pre[Target(pre, full_path)].data # WriteTranslate(call.content)
  /\ result.kind = "error"

\* C3: delete_directory on a directory with an entry in it returns an error
\* and removes nothing.
C3_NonEmptyKept ==
  (call.op = "delete_directory" /\ is_dir(pre, full_path)
     /\ Children(pre, Target(pre, full_path)) # {})
    => (result.kind = "error" /\ fs = pre)

C3_Witness ==
  /\ call.op = "delete_directory"
  /\ is_dir(pre, full_path)
  /\ ~EndsDotDot(full_path)
  /\ Children(pre, Target(pre, full_path)) # {}
  /\ result.kind = "error"

\* C4: after a successful create_file(p, c), read_file(p) returns exactly c.
C4_RoundTrip ==
  (call.op = "create_file" /\ result.kind = "message")
    => read_file(fs, call.path).result = Content(call.content)

\* C6: the scenario's seven calls from an empty base directory give, in
\* order: success, a listing with sub as a Directory, success, "hello",
\* success, success, a result without an entry named sub.
C6_Scenario ==
  /\ scen \in {1, 3, 5, 6} => result.kind = "message"
  /\ scen = 2 => /\ result.kind = "listing"
                 /\ \E e \in result.entries : e.name = "sub" /\ e.type = "Directory"
  /\ scen = 4 => result = Content(Hello)
  /\ scen = 7 => /\ result.kind \in {"message", "listing"}
                 /\ \A e \in result.entries : e.name # "sub"

C6_Witness == scen = 7

\* C7: list_files gives the informational message for an existing empty
\* directory, a list only for a directory with entries, and an error only
\* for a path that is missing or not a directory.
C7_EmptyListing ==
  call.op = "list_files" =>
    LET isd == is_dir(pre, full_path)
        kids == IF isd THEN Children(pre, Target(pre, full_path)) ELSE {}
    IN /\ (isd /\ kids = {}) => result.kind = "message"
       /\ result.kind = "listing" => (isd /\ kids # {} /\ result.entries # {})
       /\ result.kind = "error" => ~isd

C7_Witness ==
  /\ call.op = "list_files"
  /\ is_dir(pre, full_path)
  /\ Children(pre, Target(pre, full_path)) = {}
  /\ result.kind = "message"

\* proper lexical ancestors of a full path, BASE_PATH included
Ancestors(full) == {SubSeq(full, 1, k) : k \in 1..(Len(full) - 1)}

\* C8: create_directory on a missing path whose existing ancestors are all
\* directories returns success; the target and every ancestor are then
\* directories and every earlier entry is unchanged.
C8_CreateAll ==
  (call.op = "create_directory" /\ ~exists(pre, full_path)
     /\ \A a \in Ancestors(full_path) : exists(pre, a) => is_dir(pre, a))
    => /\ result.kind = "message"
       /\ is_dir(fs, full_path)
       /\ \A a \in Ancestors(full_path) : is_dir(fs, a)
       /\ \A p \in DOMAIN pre : SameEntry(p)

\* C9: delete_file on a regular file removes that file and nothing else;
\* on a directory or a missing path it returns an error and changes nothing.
C9_DeleteFile ==
  call.op = "delete_file" =>
    IF is_file(pre, full_path)
    THEN result.kind = "message" /\ fs = Remove(pre, Target(pre, full_path))
    ELSE result.kind = "error" /\ fs = pre

C9_Witness ==
  /\ call.op = "delete_file"
  /\ is_file(pre, full_path)
  /\ Cardinality(DOMAIN pre) > 4
  /\ result.kind = "message"

\* C5: every call returns a success value or an {error: ...} value, also
\* when the entry changes between its existence check and its filesystem
\* call; no exception leaves the tool function.
C5_NoEscape == \A p \in Procs : procs[p].result.kind # "exception"

\* C10: of two create_file calls that both pass the existence check on the
\* same path before either writes, at most one returns success and the file
\* holds the content of the successful call.
C10_OneWinner ==
  (\A p \in Procs : procs[p].pc = "done" /\ procs[p].op = "create_file" /\ procs[p].raced)
    => LET winners == {p \in Procs : procs[p].result.kind = "message"} IN
       /\ Cardinality(winners) <= 1
       /\ \A w \in winners :
            LET full == get_full_path(procs[w].path) IN
            is_file(fs, full) /\ fs[Target(fs, full)].data = WriteTranslate(procs[w].content)

====
